---- MODULE Spec2Model ----
(***************************************************************************)
(* Model of the Neo4j Bolt proxy (src/app.js): the Express middleware      *)
(* chain (body parser, CORS origin check), the route handlers (/health,    *)
(* /query, /debug/bolt, /debug/tls, /debug/driver), the value serializer   *)
(* and the signal handlers.                                                *)
(*                                                                         *)
(* JavaScript values are tagged records: [t |-> "undefined"],              *)
(* [t |-> "null"], [t |-> "number", n |-> 1], [t |-> "string", s |-> seq   *)
(* of characters], [t |-> "boolean", b |-> TRUE], [t |-> "array",          *)
(* a |-> seq], [t |-> "object", o |-> function from keys to values],       *)
(* [t |-> "Integer", high |-> h, low |-> l] (the driver's wide integer).   *)
(***************************************************************************)
EXTENDS Integers, Sequences, FiniteSets, TLC

VARIABLES
    rawAllowList,      \* process.env.ORIGIN_ALLOW_LIST as a sequence of characters
    exited,            \* process.exit(0) was called
    signals,           \* number of termination signals delivered
    driverCloseCalls,  \* number of driver.close() invocations
    closePending,      \* signal handlers suspended at `await driver.close()`
    closesCompleted,   \* number of driver.close() promises that resolved
    served,            \* number of requests received so far
    pc,                \* position of the request in flight
    route,             \* the request's route
    origin,            \* the request's Origin header (NoOrigin when absent)
    bodyKind,          \* "none", "ok", "malformed", "tooLarge"
    cypher,            \* req.body?.cypher, a JavaScript value
    sendCalls,         \* number of responses sent on res
    resStatus,         \* status of the first response
    resBody,           \* body of the first response
    handlerEntered,    \* the route handler of the request was invoked
    sessionsAcquired,  \* driver.session() calls of this request
    runCalls,          \* session.run() calls of this request
    runSettled,        \* session.run() returned or threw
    closeCalls,        \* session.close() calls of this request
    verifyCalls,       \* driver.verifyConnectivity() calls of this request
    escaped,           \* a rejection left the handler uncaught
    sock,              \* probe socket: "none", "connecting", "connected", "destroyed"
    timerArmed,        \* the socket's idle timer is armed
    listeners,         \* events that still have a listener on the socket
    socketsOpened,     \* sockets opened by this request
    sv,                \* serializer run: the input value
    sout,              \* serializer run: serialize(sv)
    sout2,             \* serializer run: serialize(serialize(sv))
    sphase             \* serializer run: "off", "in", "once", "twice"

vars == <<rawAllowList, exited, signals, driverCloseCalls, closePending,
          closesCompleted, served, pc, route, origin, bodyKind, cypher,
          sendCalls, resStatus, resBody, handlerEntered, sessionsAcquired,
          runCalls, runSettled, closeCalls, verifyCalls, escaped, sock,
          timerArmed, listeners, socketsOpened, sv, sout, sout2, sphase>>

serverVars == <<rawAllowList, exited, signals, driverCloseCalls, closePending,
          closesCompleted, served, pc, route, origin, bodyKind, cypher,
          sendCalls, resStatus, resBody, handlerEntered, sessionsAcquired,
          runCalls, runSettled, closeCalls, verifyCalls, escaped, sock,
          timerArmed, listeners, socketsOpened>>

serializerVars == <<sv, sout, sout2, sphase>>

\* ---------------------------------------------------------------- bounds

\* Requests received in one behaviour.
MaxRequests == 2

\* Termination signals delivered in one behaviour.
MaxSignals == 2

\* Longest array among the serializer's inputs.
MaxArr == 1

\* ------------------------------------------------------ JavaScript values

Undef == [t |-> "undefined"]
Null == [t |-> "null"]
Num(n) == [t |-> "number", n |-> n]
Str(s) == [t |-> "string", s |-> s]
Bool(b) == [t |-> "boolean", b |-> b]
Arr(a) == [t |-> "array", a |-> a]
Obj(o) == [t |-> "object", o |-> o]
WideInt(h, l) == [t |-> "Integer", high |-> h, low |-> l]

\* JavaScript truthiness (`!cypher`, `if (v.properties)`).
Truthy(v) ==
    CASE v.t = "undefined" -> FALSE
      [] v.t = "null" -> FALSE
      [] v.t = "number" -> v.n # 0
      [] v.t = "string" -> v.s # <<>>
      [] v.t = "boolean" -> v.b
      [] OTHER -> TRUE

\* v.properties: the member, or undefined when there is none.
PropertiesOf(v) ==
    IF v.t = "object" /\ "properties" \in DOMAIN v.o THEN v.o["properties"] ELSE Undef

\* The driver's Integer is a pair of 32-bit words, value = high * 2^32 + low
\* (low unsigned). The values modelled are the non-negative ones.
TwoTo16 == 65536

TwoTo21 == 2097152

\* Integer.inSafeRange(): -(2^53 - 1) <= value <= 2^53 - 1.
InSafeRange(v) ==
    /\ v.high >= -TwoTo21
    /\ v.high <= TwoTo21 - 1
    /\ ~(v.high = -TwoTo21 /\ v.low = 0)

\* Integer.toNumber().
ToNumber(v) == Num(v.high * TwoTo16 * TwoTo16 + v.low)

\* The four 16-bit limbs of an Integer, most significant first.
Limbs(v) == <<v.high \div TwoTo16, v.high % TwoTo16, v.low \div TwoTo16, v.low % TwoTo16>>

\* One step of long division by 10 over limbs: <<quotient limbs, remainder>>.
RECURSIVE DivTen(_, _, _)
DivTen(limbs, i, carry) ==
    IF i > Len(limbs) THEN <<<<>>, carry>>
    ELSE LET cur == carry * TwoTo16 + limbs[i]
             rest == DivTen(limbs, i + 1, cur % 10)
         IN <<(<<cur \div 10>>) \o rest[1], rest[2]>>

\* The decimal digits of a limb vector, as a sequence of characters.
RECURSIVE Decimal(_)
Decimal(limbs) ==
    LET qr == DivTen(limbs, 1, 0)
    IN IF \A i \in 1..Len(qr[1]) : qr[1][i] = 0
       THEN <<ToString(qr[2])>>
       ELSE Append(Decimal(qr[1]), ToString(qr[2]))

\* Integer.toString(): the decimal representation, a string.
IntToString(v) == Str(Decimal(Limbs(v)))

\* Object.entries(x) as a function from keys to values.
Entries(x) ==
    CASE x.t = "object" -> x.o
      [] x.t = "array" ->
            [k \in {ToString(i - 1) : i \in 1..Len(x.a)} |->
                x.a[CHOOSE i \in 1..Len(x.a) : ToString(i - 1) = k]]
      [] x.t = "string" ->
            [k \in {ToString(i - 1) : i \in 1..Len(x.s)} |->
                Str(<<x.s[CHOOSE i \in 1..Len(x.s) : ToString(i - 1) = k]>>)]
      [] x.t = "Integer" -> [k \in {"low", "high"} |->
                                IF k = "low" THEN Num(x.low) ELSE Num(x.high)]
      [] OTHER -> <<>>

RECURSIVE serialize(_)
serialize(v) ==
    IF v.t \in {"undefined", "null"} THEN Null
    ELSE IF v.t = "Integer" THEN (IF InSafeRange(v) THEN ToNumber(v) ELSE IntToString(v))
    ELSE IF v.t = "array" THEN Arr([i \in 1..Len(v.a) |-> serialize(v.a[i])])
    ELSE IF v.t = "object" THEN
        IF Truthy(PropertiesOf(v))
        THEN LET e == Entries(PropertiesOf(v))
             IN Obj([k \in DOMAIN e |-> serialize(e[k])])
        ELSE Obj([k \in DOMAIN v.o |-> serialize(v.o[k])])
    ELSE v

\* ------------------------------------------------------- configuration

\* String.prototype.split(','): the pieces of a character sequence between commas.
RECURSIVE Split(_)
Split(chars) ==
    IF \A i \in 1..Len(chars) : chars[i] # ","
    THEN <<chars>>
    ELSE LET i == CHOOSE j \in 1..Len(chars) :
                      chars[j] = "," /\ \A k \in 1..(j - 1) : chars[k] # ","
         IN <<SubSeq(chars, 1, i - 1)>> \o Split(SubSeq(chars, i + 1, Len(chars)))

\* String.prototype.trim(): without leading and trailing blanks.
RECURSIVE Trim(_)
Trim(chars) ==
    IF chars = <<>> THEN chars
    ELSE IF Head(chars) = " " THEN Trim(Tail(chars))
    ELSE IF chars[Len(chars)] = " " THEN Trim(SubSeq(chars, 1, Len(chars) - 1))
    ELSE chars

\* (raw).split(',').map(s => s.trim()).filter(Boolean), as the set of its entries.
AllowListOf(raw) ==
    LET pieces == Split(raw)
    IN {Trim(pieces[i]) : i \in 1..Len(pieces)} \ {<<>>}

ORIGIN_ALLOW_LIST == AllowListOf(rawAllowList)

\* The default list has the shape "n,t"; the others exercise blanks and empty pieces.
AllowListConfigs ==
    { <<"n", ",", "t">>,
      <<" ", "n", ",", ",", " ", "t", " ">> }

\* Origin header values: absent, empty, two listed by the configurations, two not.
Origins ==
    { Undef, Str(<<>>), Str(<<"n">>), Str(<<"t">>), Str(<<"e">>), Str(<<" ", "n">>) }

\* The origin callback without the allow-list test.
OriginAllowedAny(o) == TRUE

\* The cors origin callback: TRUE for cb(null, true), FALSE for cb(new Error(..), false).
OriginAllowed(o) == ~Truthy(o) \/ o.s \in ORIGIN_ALLOW_LIST

\* --------------------------------------------------------------- requests

Routes == {"health", "query", "bolt", "tls", "driver"}

\* req.body?.cypher of a parsed body.
CypherValues == { Undef, Null, Str(<<>>), Str(<<"q">>), Num(1) }

\* Errors the external client throws: code absent, empty or present.
ClientErrors ==
    { [code |-> c, message |-> "failed"] : c \in {Undef, Str(<<>>), Str(<<"Neo.ClientError">>)} }

Rec(keys, get) == [keys |-> keys, get |-> get]

\* Record sets session.run resolves with: none, one record of a safe integer and
\* a node, two records with an unsafe integer.
RecordSets ==
    { <<>>,
      << Rec(<<"a", "b">>,
             [a |-> WideInt(0, 7),
              b |-> Obj([properties |-> Obj([name |-> Str(<<"x">>)]),
                         labels |-> Arr(<<Str(<<"L">>)>>)])]) >>,
      << Rec(<<"a">>, [a |-> WideInt(TwoTo21, 0)]),
         Rec(<<"a">>, [a |-> Null]) >> }

\* The first response on res wins; every call is counted.
Send(status, body) ==
    /\ sendCalls' = sendCalls + 1
    /\ resStatus' = IF sendCalls = 0 THEN status ELSE resStatus
    /\ resBody' = IF sendCalls = 0 THEN body ELSE resBody

NoSend == UNCHANGED <<sendCalls, resStatus, resBody>>

NoBody == [none |-> TRUE]

configVars == <<rawAllowList>>
signalVars == <<exited, signals, driverCloseCalls, closePending, closesCompleted>>
requestVars == <<served, route, origin, bodyKind, cypher>>
sessionVars == <<sessionsAcquired, runCalls, runSettled, closeCalls, escaped>>
socketVars == <<sock, timerArmed, listeners, socketsOpened>>

InitServer ==
    /\ rawAllowList \in AllowListConfigs
    /\ exited = FALSE
    /\ signals = 0
    /\ driverCloseCalls = 0
    /\ closePending = 0
    /\ closesCompleted = 0
    /\ served = 0
    /\ pc = "idle"
    /\ route = "health"
    /\ origin = Undef
    /\ bodyKind = "none"
    /\ cypher = Undef
    /\ sendCalls = 0
    /\ resStatus = 0
    /\ resBody = NoBody
    /\ handlerEntered = FALSE
    /\ sessionsAcquired = 0
    /\ runCalls = 0
    /\ runSettled = FALSE
    /\ closeCalls = 0
    /\ verifyCalls = 0
    /\ escaped = FALSE
    /\ sock = "none"
    /\ timerArmed = FALSE
    /\ listeners = {}
    /\ socketsOpened = 0

\* The server after construction; no serializer run.
Init ==
    /\ InitServer
    /\ sv = Null
    /\ sout = Null
    /\ sout2 = Null
    /\ sphase = "off"

\* A request arrives (app.listen): its route, Origin header and body are the inputs.
Receive ==
    /\ ~exited
    /\ pc \in {"idle", "done"}
    /\ served < MaxRequests
    /\ served' = served + 1
    /\ \E r \in Routes, o \in Origins :
          /\ route' = r
          /\ origin' = o
          /\ \E k \in (IF r = "query" THEN {"none", "ok", "malformed", "tooLarge"} ELSE {"none"}) :
                /\ bodyKind' = k
                /\ cypher' \in (IF k = "ok" THEN CypherValues ELSE {Undef})
    /\ pc' = "bodyParser"
    /\ sendCalls' = 0
    /\ resStatus' = 0
    /\ resBody' = NoBody
    /\ handlerEntered' = FALSE
    /\ sessionsAcquired' = 0
    /\ runCalls' = 0
    /\ runSettled' = FALSE
    /\ closeCalls' = 0
    /\ verifyCalls' = 0
    /\ escaped' = FALSE
    /\ sock' = "none"
    /\ timerArmed' = FALSE
    /\ listeners' = {}
    /\ socketsOpened' = 0
    /\ UNCHANGED <<configVars, signalVars, serializerVars>>

\* bodyParser.json({ limit: '2mb' }): a body over the limit is refused with 413, a
\* malformed one with 400 (Express' error handler answers); otherwise next().
BodyParser ==
    /\ ~exited
    /\ pc = "bodyParser"
    /\ IF bodyKind = "tooLarge"
       THEN Send(413, [message |-> "request entity too large"]) /\ pc' = "done"
       ELSE IF bodyKind = "malformed"
       THEN Send(400, [message |-> "bad json"]) /\ pc' = "done"
       ELSE NoSend /\ pc' = "cors"
    /\ UNCHANGED <<configVars, signalVars, requestVars, handlerEntered, sessionVars,
                   verifyCalls, socketVars, serializerVars>>

\* cors({ origin: ... }): cb(null, true) calls next(); cb(err, false) calls next(err)
\* and Express' error handler answers 500 without running a route handler.
Cors ==
    /\ ~exited
    /\ pc = "cors"
    /\ IF OriginAllowed(origin)
       THEN NoSend /\ pc' = "dispatch"
       ELSE Send(500, [message |-> "Not allowed by CORS"]) /\ pc' = "done"
    /\ UNCHANGED <<configVars, signalVars, requestVars, handlerEntered, sessionVars,
                   verifyCalls, socketVars, serializerVars>>

\* ------------------------------------------------- /health, /debug/driver

\* The handler up to `await driver.verifyConnectivity()`.
VerifyStart(r) ==
    /\ ~exited
    /\ pc = "dispatch"
    /\ route = r
    /\ handlerEntered' = TRUE
    /\ verifyCalls' = verifyCalls + 1
    /\ pc' = "v_wait"
    /\ NoSend
    /\ UNCHANGED <<configVars, signalVars, requestVars, sessionVars, socketVars,
                   serializerVars>>

\* verifyConnectivity() resolved: res.json({ ok: true }).
VerifyOk(r) ==
    /\ ~exited
    /\ pc = "v_wait"
    /\ route = r
    /\ Send(200, [ok |-> TRUE])
    /\ pc' = "done"
    /\ UNCHANGED <<configVars, signalVars, requestVars, handlerEntered, sessionVars,
                   verifyCalls, socketVars, serializerVars>>

\* verifyConnectivity() rejected: the catch block answers 502.
VerifyFail(r) ==
    /\ ~exited
    /\ pc = "v_wait"
    /\ route = r
    /\ \E e \in ClientErrors : Send(502, [ok |-> FALSE, error |-> e.message])
    /\ pc' = "done"
    /\ UNCHANGED <<configVars, signalVars, requestVars, handlerEntered, sessionVars,
                   verifyCalls, socketVars, serializerVars>>

HealthStart == VerifyStart("health")
HealthOk == VerifyOk("health")
HealthFail == VerifyFail("health")

DebugDriverStart == VerifyStart("driver")
DebugDriverOk == VerifyOk("driver")
DebugDriverFail == VerifyFail("driver")

\* ------------------------------------------------------------ POST /query

MissingCypherBody == [error |-> "Missing 'cypher' in body."]

\* columns: the keys of the first record, or none.
Columns(records) == IF Len(records) > 0 THEN records[1].keys ELSE <<>>

\* data: one { row } per record, the serialized value of each column in order.
Data(records) ==
    LET columns == Columns(records)
    IN [i \in 1..Len(records) |->
          [row |-> [j \in 1..Len(columns) |-> serialize(records[i].get[columns[j]])]]]

SuccessEnvelope(records) ==
    [results |-> <<[columns |-> Columns(records), data |-> Data(records)]>>,
     errors |-> <<>>]

QueryErrorCode == Str(<<"QueryError">>)

\* { results: [], errors: [{ code: err.code || 'QueryError', message: err.message }] }
ErrorEnvelope(err) ==
    [results |-> <<>>,
     errors |-> <<[code |-> IF Truthy(err.code) THEN err.code ELSE QueryErrorCode,
                   message |-> err.message]>>]

\* The finally block up to `await session.close()`.
Finally ==
    /\ closeCalls' = closeCalls + 1
    /\ pc' = "q_close"

\* The handler without the `if (!cypher)` test.
QueryStartNoCheck ==
    /\ ~exited
    /\ pc = "dispatch"
    /\ route = "query"
    /\ handlerEntered' = TRUE
    /\ NoSend
    /\ sessionsAcquired' = sessionsAcquired + 1
    /\ runCalls' = runCalls + 1
    /\ pc' = "q_run"
    /\ UNCHANGED <<configVars, signalVars, requestVars, runSettled, closeCalls, escaped,
                   verifyCalls, socketVars, serializerVars>>

\* The handler up to `await session.run(cypher, params)`: a falsy cypher is answered
\* at once; otherwise a session is acquired and the query is run.
QueryStart ==
    /\ ~exited
    /\ pc = "dispatch"
    /\ route = "query"
    /\ handlerEntered' = TRUE
    /\ IF ~Truthy(cypher)
       THEN /\ Send(400, MissingCypherBody)
            /\ pc' = "done"
            /\ UNCHANGED <<sessionsAcquired, runCalls>>
       ELSE /\ NoSend
            /\ sessionsAcquired' = sessionsAcquired + 1
            /\ runCalls' = runCalls + 1
            /\ pc' = "q_run"
    /\ UNCHANGED <<configVars, signalVars, requestVars, runSettled, closeCalls, escaped,
                   verifyCalls, socketVars, serializerVars>>

\* session.run resolved: the try block answers with the result, then finally.
QueryRunResolves ==
    /\ ~exited
    /\ pc = "q_run"
    /\ runSettled' = TRUE
    /\ \E records \in RecordSets : Send(200, SuccessEnvelope(records))
    /\ Finally
    /\ UNCHANGED <<configVars, signalVars, requestVars, handlerEntered, sessionsAcquired,
                   runCalls, escaped, verifyCalls, socketVars, serializerVars>>

\* The catch block with the session closed on the success path only (no finally).
QueryRunRejectsNoClose ==
    /\ ~exited
    /\ pc = "q_run"
    /\ runSettled' = TRUE
    /\ \E err \in ClientErrors : Send(400, ErrorEnvelope(err))
    /\ pc' = "done"
    /\ UNCHANGED <<configVars, signalVars, requestVars, handlerEntered, sessionsAcquired,
                   runCalls, closeCalls, escaped, verifyCalls, socketVars, serializerVars>>

\* session.run threw: the catch block answers 400 with the error envelope, then finally.
QueryRunRejects ==
    /\ ~exited
    /\ pc = "q_run"
    /\ runSettled' = TRUE
    /\ \E err \in ClientErrors : Send(400, ErrorEnvelope(err))
    /\ Finally
    /\ UNCHANGED <<configVars, signalVars, requestVars, handlerEntered, sessionsAcquired,
                   runCalls, escaped, verifyCalls, socketVars, serializerVars>>

\* session.close() resolved: the handler returns.
QueryCloseResolves ==
    /\ ~exited
    /\ pc = "q_close"
    /\ pc' = "done"
    /\ NoSend
    /\ UNCHANGED <<configVars, signalVars, requestVars, handlerEntered, sessionVars,
                   verifyCalls, socketVars, serializerVars>>

\* session.close() rejected inside finally: nothing catches it, the async handler's
\* promise rejects.
QueryCloseRejects ==
    /\ ~exited
    /\ pc = "q_close"
    /\ escaped' = TRUE
    /\ pc' = "done"
    /\ NoSend
    /\ UNCHANGED <<configVars, signalVars, requestVars, handlerEntered, sessionsAcquired,
                   runCalls, runSettled, closeCalls, verifyCalls, socketVars,
                   serializerVars>>

\* ------------------------------------------------------------ /debug/bolt
\* The socket follows Node's net.Socket (tls.TLSSocket extends it): 'connect' /
\* 'secureConnect' is emitted once, while the socket is connecting; the idle timer
\* set by setTimeout emits 'timeout' while the socket is alive, only notifies (the
\* listener has to close the socket itself) and is cleared by destroy(); 'error' is
\* emitted by the socket's own destroy(err) and 'close' follows it directly, so the
\* socket is already destroyed when an 'error' listener runs; a destroyed socket
\* emits none of the three.

SocketAlive == sock \in {"connecting", "connected"}

\* The handler without s.setTimeout(4000).
DebugBoltNoTimer ==
    /\ ~exited
    /\ pc = "dispatch"
    /\ route = "bolt"
    /\ handlerEntered' = TRUE
    /\ socketsOpened' = socketsOpened + 1
    /\ sock' = "connecting"
    /\ timerArmed' = FALSE
    /\ listeners' = {"connect", "timeout", "error"}
    /\ pc' = "p_wait"
    /\ NoSend
    /\ UNCHANGED <<configVars, signalVars, requestVars, sessionVars, verifyCalls,
                   serializerVars>>

\* The handler: new net.Socket(), setTimeout(4000), three once-listeners, connect().
DebugBolt ==
    /\ ~exited
    /\ pc = "dispatch"
    /\ route = "bolt"
    /\ handlerEntered' = TRUE
    /\ socketsOpened' = socketsOpened + 1
    /\ sock' = "connecting"
    /\ timerArmed' = TRUE
    /\ listeners' = {"connect", "timeout", "error"}
    /\ pc' = "p_wait"
    /\ NoSend
    /\ UNCHANGED <<configVars, signalVars, requestVars, sessionVars, verifyCalls,
                   serializerVars>>

\* The 'connect' listener without s.destroy(): the socket stays connected, its idle
\* timer armed.
BoltOnConnectNoDestroy ==
    /\ ~exited
    /\ route = "bolt"
    /\ sock = "connecting"
    /\ "connect" \in listeners
    /\ listeners' = listeners \ {"connect"}
    /\ sock' = "connected"
    /\ timerArmed' = timerArmed
    /\ Send(200, [connect |-> TRUE])
    /\ pc' = "done"
    /\ UNCHANGED <<configVars, signalVars, requestVars, handlerEntered, sessionVars,
                   verifyCalls, socketsOpened, serializerVars>>

\* 'connect': s.destroy(); res.json({ connect: true }).
BoltOnConnect ==
    /\ ~exited
    /\ route = "bolt"
    /\ sock = "connecting"
    /\ "connect" \in listeners
    /\ listeners' = listeners \ {"connect"}
    /\ sock' = "destroyed"
    /\ timerArmed' = FALSE
    /\ Send(200, [connect |-> TRUE])
    /\ pc' = "done"
    /\ UNCHANGED <<configVars, signalVars, requestVars, handlerEntered, sessionVars,
                   verifyCalls, socketsOpened, serializerVars>>

\* 'timeout': s.destroy(); res.status(504).json({ connect: false, error: 'timeout' }).
BoltOnTimeout ==
    /\ ~exited
    /\ route = "bolt"
    /\ SocketAlive
    /\ timerArmed
    /\ "timeout" \in listeners
    /\ listeners' = listeners \ {"timeout"}
    /\ sock' = "destroyed"
    /\ timerArmed' = FALSE
    /\ Send(504, [connect |-> FALSE, error |-> "timeout"])
    /\ pc' = "done"
    /\ UNCHANGED <<configVars, signalVars, requestVars, handlerEntered, sessionVars,
                   verifyCalls, socketsOpened, serializerVars>>

\* 'error': s.destroy() (a no-op on the socket the error destroyed);
\* res.status(502).json({ connect: false, error: e.message }).
BoltOnError ==
    /\ ~exited
    /\ route = "bolt"
    /\ SocketAlive
    /\ "error" \in listeners
    /\ listeners' = listeners \ {"error"}
    /\ sock' = "destroyed"
    /\ timerArmed' = FALSE
    /\ \E e \in ClientErrors : Send(502, [connect |-> FALSE, error |-> e.message])
    /\ pc' = "done"
    /\ UNCHANGED <<configVars, signalVars, requestVars, handlerEntered, sessionVars,
                   verifyCalls, socketsOpened, serializerVars>>

\* ------------------------------------------------------------- /debug/tls

\* The handler: tls.connect({ ..., timeout: 6000 }, callback), then on('error') and
\* on('timeout'). The callback is a once-listener of 'secureConnect'.
DebugTls ==
    /\ ~exited
    /\ pc = "dispatch"
    /\ route = "tls"
    /\ handlerEntered' = TRUE
    /\ socketsOpened' = socketsOpened + 1
    /\ sock' = "connecting"
    /\ timerArmed' = TRUE
    /\ listeners' = {"secureConnect", "timeout", "error"}
    /\ pc' = "p_wait"
    /\ NoSend
    /\ UNCHANGED <<configVars, signalVars, requestVars, sessionVars, verifyCalls,
                   serializerVars>>

\* The handshake callback: sock.destroy(); res.json({ ok: true, info }).
TlsOnSecureConnect ==
    /\ ~exited
    /\ route = "tls"
    /\ sock = "connecting"
    /\ "secureConnect" \in listeners
    /\ listeners' = listeners \ {"secureConnect"}
    /\ sock' = "destroyed"
    /\ timerArmed' = FALSE
    /\ Send(200, [ok |-> TRUE, info |-> [authorized |-> TRUE]])
    /\ pc' = "done"
    /\ UNCHANGED <<configVars, signalVars, requestVars, handlerEntered, sessionVars,
                   verifyCalls, socketsOpened, serializerVars>>

\* 'error' (the listener stays; the socket was destroyed by the error itself):
\* res.status(502).json({ ok: false, error: e.message }).
TlsOnError ==
    /\ ~exited
    /\ route = "tls"
    /\ SocketAlive
    /\ "error" \in listeners
    /\ sock' = "destroyed"
    /\ timerArmed' = FALSE
    /\ \E e \in ClientErrors : Send(502, [ok |-> FALSE, error |-> e.message])
    /\ pc' = "done"
    /\ UNCHANGED <<configVars, signalVars, requestVars, handlerEntered, sessionVars,
                   verifyCalls, listeners, socketsOpened, serializerVars>>

\* The 'timeout' listener without sock.destroy(): the handshake goes on.
TlsOnTimeoutNoDestroy ==
    /\ ~exited
    /\ route = "tls"
    /\ SocketAlive
    /\ timerArmed
    /\ "timeout" \in listeners
    /\ sock' = sock
    /\ timerArmed' = FALSE
    /\ Send(504, [ok |-> FALSE, error |-> "timeout"])
    /\ pc' = "done"
    /\ UNCHANGED <<configVars, signalVars, requestVars, handlerEntered, sessionVars,
                   verifyCalls, listeners, socketsOpened, serializerVars>>

\* 'timeout' (the listener stays): sock.destroy();
\* res.status(504).json({ ok: false, error: 'timeout' }).
TlsOnTimeout ==
    /\ ~exited
    /\ route = "tls"
    /\ SocketAlive
    /\ timerArmed
    /\ "timeout" \in listeners
    /\ sock' = "destroyed"
    /\ timerArmed' = FALSE
    /\ Send(504, [ok |-> FALSE, error |-> "timeout"])
    /\ pc' = "done"
    /\ UNCHANGED <<configVars, signalVars, requestVars, handlerEntered, sessionVars,
                   verifyCalls, listeners, socketsOpened, serializerVars>>

\* --------------------------------------------------------------- shutdown

\* A signal handler up to `await driver.close()`.
OnSignal ==
    /\ ~exited
    /\ signals < MaxSignals
    /\ signals' = signals + 1
    /\ driverCloseCalls' = driverCloseCalls + 1
    /\ closePending' = closePending + 1
    /\ UNCHANGED <<configVars, exited, closesCompleted, requestVars, pc, sendCalls,
                   resStatus, resBody, handlerEntered, sessionVars, verifyCalls,
                   socketVars, serializerVars>>

SigInt == OnSignal

SigTerm == OnSignal

\* driver.close() resolved in a suspended signal handler: process.exit(0).
DriverCloseResolves ==
    /\ ~exited
    /\ closePending > 0
    /\ closePending' = closePending - 1
    /\ closesCompleted' = closesCompleted + 1
    /\ exited' = TRUE
    /\ UNCHANGED <<configVars, signals, driverCloseCalls, requestVars, pc, sendCalls,
                   resStatus, resBody, handlerEntered, sessionVars, verifyCalls,
                   socketVars, serializerVars>>

\* ------------------------------------------------------------------ server

Next ==
    \/ Receive
    \/ BodyParser
    \/ Cors
    \/ HealthStart
    \/ HealthOk
    \/ HealthFail
    \/ QueryStart
    \/ QueryRunResolves
    \/ QueryRunRejects
    \/ QueryCloseResolves
    \/ QueryCloseRejects
    \/ DebugBolt
    \/ BoltOnConnect
    \/ BoltOnTimeout
    \/ BoltOnError
    \/ DebugTls
    \/ TlsOnSecureConnect
    \/ TlsOnTimeout
    \/ TlsOnError
    \/ DebugDriverStart
    \/ DebugDriverOk
    \/ DebugDriverFail
    \/ SigInt
    \/ SigTerm
    \/ DriverCloseResolves

Spec == Init /\ [][Next]_vars

\* The idle timers armed by setTimeout(4000) and { timeout: 6000 } fire while the
\* socket is alive.
FairSpec == Spec /\ WF_vars(BoltOnTimeout) /\ WF_vars(TlsOnTimeout)

\* -------------------------------------------------------------- serializer

\* Scalars: null, a falsy number, a truthy boolean, a string, and two wide integers
\* (one in the safe range, one not).
Scalars ==
    { Null, Num(0), Bool(TRUE), Str(<<"a">>), WideInt(0, 7), WideInt(TwoTo21, 0) }

Keys == {"properties", "a"}

\* Arrays of at most MaxArr elements of S.
ArraysOver(S) == UNION { {Arr(a) : a \in [1..n -> S]} : n \in 0..MaxArr }

\* Mappings from a subset of Keys to S.
ObjectsOver(S) == UNION { {Obj(o) : o \in [K -> S]} : K \in SUBSET Keys }

Nested1 == Scalars \cup ArraysOver(Scalars) \cup ObjectsOver(Scalars)

\* Values nested two levels deep.
SerializerInputs == Nested1 \cup ArraysOver(Nested1) \cup ObjectsOver(Nested1)

\* null, number, string, boolean, array of such, mapping from string keys to such.
RECURSIVE IsJsonSafe(_)
IsJsonSafe(v) ==
    CASE v.t \in {"null", "number", "string", "boolean"} -> TRUE
      [] v.t = "array" -> \A i \in 1..Len(v.a) : IsJsonSafe(v.a[i])
      [] v.t = "object" -> \A k \in DOMAIN v.o : IsJsonSafe(v.o[k])
      [] OTHER -> FALSE

SerInit ==
    /\ InitServer
    /\ sv \in SerializerInputs
    /\ sout = Null
    /\ sout2 = Null
    /\ sphase = "in"

\* serialize applied to the input.
SerializeOnce ==
    /\ sphase = "in"
    /\ sout' = serialize(sv)
    /\ sphase' = "once"
    /\ UNCHANGED <<sv, sout2, serverVars>>

\* serialize applied to its own output.
SerializeTwice ==
    /\ sphase = "once"
    /\ sout2' = serialize(sout)
    /\ sphase' = "twice"
    /\ UNCHANGED <<sv, sout, serverVars>>

SerNext ==
    \/ SerializeOnce
    \/ SerializeTwice

SpecSerialize == SerInit /\ [][SerNext]_vars

\* ----------------------------------------------------------------- claims

\* C1: a POST /query request that acquired a session invokes session.close() exactly
\* once, only after session.run returned or threw, on the success and on the failure
\* path; no such request finishes with its session not closed.
SessionClosedExactlyOnce ==
    /\ closeCalls <= 1
    /\ closeCalls = 1 => (sessionsAcquired = 1 /\ runSettled)
    /\ (pc = "done" /\ sessionsAcquired = 1) => closeCalls = 1

\* A request whose query threw finished with its session closed.
SessionClosedAfterFailure ==
    /\ pc = "done"
    /\ sessionsAcquired = 1
    /\ resStatus = 400
    /\ closeCalls = 1

\* C2: one invocation of /debug/bolt sends at most one response, whatever the order
\* of connect, timeout and error: the first event destroys the socket and answers,
\* and no later event answers again.
BoltSingleResponse ==
    route = "bolt" =>
        /\ sendCalls <= 1
        /\ (handlerEntered /\ sendCalls = 1) => (sock = "destroyed" /\ ~timerArmed)

\* A raw probe answered by its 'connect' event.
BoltAnsweredByConnect ==
    /\ route = "bolt"
    /\ sendCalls = 1
    /\ resStatus = 200
    /\ sock = "destroyed"

\* C3: for any sequence of termination signals driver.close() is invoked exactly
\* once, and the process exits only after that close completed.
DriverClosedExactlyOnce ==
    /\ driverCloseCalls <= 1
    /\ exited => (driverCloseCalls = 1 /\ closesCompleted = 1)

\* C4: no failure of an external-client operation leaves its handler uncaught.
NoFailureEscapesHandler == ~escaped

\* The request went through the origin check (the body parser let it pass).
PastCors ==
    \/ pc \in {"dispatch", "q_run", "q_close", "v_wait", "p_wait"}
    \/ pc = "done" /\ bodyKind \in {"none", "ok"}

MissingCypherRejected ==
    (route = "query" /\ ~Truthy(cypher)) =>
        /\ sessionsAcquired = 0
        /\ runCalls = 0
        /\ handlerEntered => (pc = "done" /\ sendCalls = 1 /\ resStatus = 400)

\* The handler answered a body with an empty cypher.
EmptyCypherAnswered ==
    /\ route = "query"
    /\ handlerEntered
    /\ bodyKind = "ok"
    /\ cypher = Str(<<>>)
    /\ resStatus = 400

\* The shape { results: [], errors: [{ code, message }] }.
IsErrorEnvelope(b) ==
    /\ DOMAIN b = {"results", "errors"}
    /\ b.results = <<>>
    /\ Len(b.errors) = 1
    /\ DOMAIN b.errors[1] = {"code", "message"}

\* C7: every failure response of the POST /query handler has status 400 and the
\* shape { results: [], errors: [{ code, message }] }.
QueryFailureIsEnvelope ==
    (route = "query" /\ handlerEntered /\ sendCalls >= 1 /\ resStatus # 200) =>
        /\ resStatus = 400
        /\ IsErrorEnvelope(resBody)

\* C8: on a JSON-safe value serialize is the identity, and serializing its output
\* again changes nothing.
SerializeIdempotentOnJsonSafe ==
    IsJsonSafe(sv) =>
        /\ sphase \in {"once", "twice"} => sout = sv
        /\ sphase = "twice" => sout2 = sout

\* The step in which the 'timeout' listener of /debug/bolt answers.
TimeoutAnswered ==
    /\ route = "bolt"
    /\ sendCalls = 0
    /\ sendCalls' = 1
    /\ "timeout" \in listeners
    /\ "timeout" \notin listeners'

\* C9: every invocation of /debug/bolt is eventually answered (unless the process
\* exits first), and the answer its timeout gives is 504 with error 'timeout'.
BoltProbeAnswers ==
    /\ (route = "bolt" /\ pc = "p_wait") ~> (sendCalls >= 1 \/ exited)
    /\ [][TimeoutAnswered => (resStatus' = 504 /\ resBody'.error = "timeout")]_vars

\* A raw probe answered by its timeout.
BoltAnsweredByTimeout ==
    /\ route = "bolt"
    /\ sendCalls = 1
    /\ resStatus = 504
    /\ resBody.error = "timeout"

\* C10: one invocation of /debug/tls sends at most one response, whatever the order
\* of the handshake callback, error and timeout: after the first of them the socket
\* is torn down and no later event answers again.
TlsSingleResponse ==
    route = "tls" =>
        /\ sendCalls <= 1
        /\ (handlerEntered /\ sendCalls = 1) => (sock = "destroyed" /\ ~timerArmed)

\* An encrypted probe answered by its 'error' event.
TlsAnsweredByError ==
    /\ route = "tls"
    /\ sendCalls = 1
    /\ resStatus = 502
    /\ sock = "destroyed"

====
